---- MODULE Spec2Model ----
\* IPAM block affinity claim / release protocol and the block enumeration
\* generators of lib/client/ipam_block_reader_writer.go.
EXTENDS Integers, Sequences, FiniteSets, TLC

\* ---------------------------------------------------------------- bounds

\* Number of client calls started in one behaviour, when calls overlap ...
MaxCalls == 3
\* ... when the overlapping calls are claimBlockAffinity and
\* releaseBlockAffinity only ...
MaxDirectCalls == 4
\* ... and when they are made one after the other.
MaxSeqCalls == 3
\* Number of allocation writes made by address assignment (outside this file).
MaxEnvWrites == 1
\* Store and catalog calls that fail with an arbitrary error in one behaviour ...
MaxFaults == 1
\* ... and the number of calls started in such a behaviour.
MaxFaultCalls == 2
\* Largest pool, in blocks, handed to the generators on their own.
GenMaxBlocks == 4
\* Number of block-sized slots of address space the generator pools are drawn from.
GenSlots == 4

\* ------------------------------------------------------ program constants

\* Addresses per block (package constant used at lines 289, 311, 328).
blockSize == 64
\* Bound of the release loop (package constant used at line 185).
ipamEtcdRetries == 2

\* ------------------------------------------------------------- addresses

\* An IP is [ver, addr]; a CIDR (common.IPNet) is [ver, addr, ones].  IPv4
\* addresses are their 32-bit value; an IPv6 address is its offset inside one
\* fixed /96, the upper bits never change in what follows.
Base4 == 167772160       \* 10.0.0.0

Bits(ver) == IF ver = 4 THEN 32 ELSE 128

RECURSIVE Exp2(_)
Exp2(n) == IF n <= 0 THEN 1 ELSE 2 * Exp2(n - 1)

\* version.BlockPrefixMask of getIPVersion: /26 for IPv4, /122 for IPv6.
BlockPrefixLen(ver) == IF ver = 4 THEN 26 ELSE 122

getIPVersion(ip) == [Number |-> ip.ver, BlockPrefixLen |-> BlockPrefixLen(ip.ver)]

\* Number of addresses of a CIDR.
Size(cidr) == Exp2(Bits(cidr.ver) - cidr.ones)

\* net.IPNet.Contains
Contains(cidr, ip) ==
    /\ ip.ver = cidr.ver
    /\ cidr.addr <= ip.addr
    /\ ip.addr < cidr.addr + Size(cidr)

incrementIP(ip, increment) == [ip EXCEPT !.addr = @ + increment]

PoolIP(pool) == [ver |-> pool.ver, addr |-> pool.addr]

BlockCIDR(ip) == [ver |-> ip.ver, addr |-> ip.addr, ones |-> getIPVersion(ip).BlockPrefixLen]

NilCIDR == [ver |-> 0, addr |-> 0, ones |-> 0]

\* ------------------------------------------------------------ generators

\* One call of the closure returned by blockGenerator(pool); ip is the
\* closure's captured variable.  The result is the new ip and the CIDR
\* returned (NilCIDR for nil).
blockGeneratorNext(pool, ip) ==
    LET returnIP == ip
        next     == incrementIP(ip, blockSize)
    IN  [ip     |-> next,
         subnet |-> IF Contains(pool, next) THEN BlockCIDR(returnIP) ELSE NilCIDR]

\* numBlocks of randomBlockGenerator.
numBlocks(pool) == Exp2(Bits(pool.ver) - pool.ones) \div blockSize

\* randm.Perm(n): every permutation of 0..n-1, as a sequence.
Perm(n) == { s \in [1..n -> 0..(n - 1)] : \A a, b \in 1..n : a # b => s[a] # s[b] }

\* One call of the closure returned by randomBlockGenerator(pool); idxs is the
\* closure's remaining index slice.
randomBlockGeneratorNext(pool, idxs) ==
    IF Len(idxs) # 0
    THEN LET i == idxs[Len(idxs)]
         IN  [idxs   |-> SubSeq(idxs, 1, Len(idxs) - 1),
              subnet |-> BlockCIDR(incrementIP(PoolIP(pool), i * blockSize))]
    ELSE [idxs |-> idxs, subnet |-> NilCIDR]

\* ------------------------------------------------------------ pool catalog

\* What client.Pools().List returns: 10.0.0.0/24, 10.0.1.0/25, a disabled
\* 10.0.2.0/25 and one IPv6 pool of a single block.
Pool1 == [ver |-> 4, addr |-> Base4, ones |-> 24]
Pool2 == [ver |-> 4, addr |-> Base4 + 256, ones |-> 25]
Pool3 == [ver |-> 4, addr |-> Base4 + 512, ones |-> 25]
Pool6 == [ver |-> 6, addr |-> 0, ones |-> 122]
Pools == << [CIDR |-> Pool1, Disabled |-> FALSE],
            [CIDR |-> Pool2, Disabled |-> FALSE],
            [CIDR |-> Pool3, Disabled |-> TRUE],
            [CIDR |-> Pool6, Disabled |-> FALSE] >>

\* The same catalog with the IPv6 pool disabled: no enabled IPv6 pool.
PoolsNoV6 == [Pools EXCEPT ![4].Disabled = TRUE]

\* The catalogs a deployment may have.
Catalogs == {Pools, PoolsNoV6}

\* The fixed-size partition of a pool into blocks.
BlocksOf(pool) ==
    { BlockCIDR(incrementIP(PoolIP(pool), k * blockSize)) : k \in 0..(numBlocks(pool) - 1) }

\* Every key a Block record can be stored under.
BlockKeys == UNION { BlocksOf(Pools[k].CIDR) : k \in 1..Len(Pools) }

Hosts == {"hostA", "hostB"}
NoHost == "nil"
Procs == {1, 2}

\* Inputs of the calls.
PoolArgs == {NilCIDR, Pool2, Pool3, Pool6}
Versions == {4, 6}
ArgCIDRs == {BlockCIDR(PoolIP(Pool1)), BlockCIDR(PoolIP(Pool2))}

\* ------------------------------------------------------------------ state

VARIABLES
    blocks,     \* Block Store: block CIDR -> Block record (or NoBlock)
    affs,       \* Block Store: the Block Affinity records, pairs <<host, cidr>>
    fresh,      \* Block Store: per process, the revision its last Get returned is
                \* still the revision of that block
    pc,         \* per process: where its call stands ("idle" between calls)
    call,       \* per process: the running call and its arguments
    scan,       \* per process: pools, pool index, generator ip, current subnet
    obj,        \* per process: the KVPair read by the last Get
    i,          \* per process: loop counter of releaseBlockAffinity
    ncalls,     \* calls started so far
    limit,      \* calls that may be started in this behaviour
    catalog,    \* Pool Catalog: what client.Pools().List returns
    envWrites,  \* allocation writes made so far
    faults,     \* store / catalog failures that may still be injected
    start,      \* history: the store and the last finished call when the call started
    alone,      \* history: no other operation has run during the call
    steps,      \* history: the store calls the call has issued
    lastDone,   \* history: the call that returned in the last step, and its result
    succ,       \* history: <<cidr, host>> of the claims that returned success
    anyRelease, \* history: a release has been started
    gen,        \* a blockGenerator closure driven on its own
    rnd         \* a randomBlockGenerator closure driven on its own

storeVars == <<blocks, affs>>
genVars   == <<gen, rnd>>
vars == <<blocks, affs, fresh, pc, call, scan, obj, i, ncalls, limit, catalog, envWrites,
          faults, start, alone, steps, lastDone, succ, anyRelease, gen, rnd>>

\* ------------------------------------------------------------ Block Store

\* A stored Block: model.AllocationBlock reduced to what this file reads
\* (HostAffinity, StrictAffinity, whether any address is leased).  The store
\* gives every write of a key a revision of its own; what Update compares is
\* kept in fresh.
NoBlock == [present |-> FALSE, aff |-> NoHost, strict |-> FALSE, empty |-> TRUE]

\* newBlock(subnet) with HostAffinity and StrictAffinity set (lines 138-140).
newBlock(host, strict) ==
    [present |-> TRUE, aff |-> host, strict |-> strict, empty |-> TRUE]

\* backend.Get of a Block key.
StoreGet(c) ==
    IF blocks[c].present THEN [err |-> "nil", kv |-> blocks[c]]
                         ELSE [err |-> "NotFound", kv |-> NoBlock]

\* backend.Create of a Block key: the error it returns.
StoreCreateErr(c) == IF blocks[c].present THEN "AlreadyExists" ELSE "nil"

\* backend.Update of a Block key with the revision p read: the error it returns.
StoreUpdateErr(c, p) ==
    IF ~blocks[c].present THEN "NotFound"
    ELSE IF ~fresh[p] THEN "UpdateConflict"
    ELSE "nil"

\* The revisions after a step of p: mine tells whether p holds the current
\* revision of the block it read, written is the key the step wrote
\* (NilCIDR: none).  Nothing is held between calls.
Fresh(p, mine, written) ==
    fresh' = [q \in Procs |->
                 /\ pc'[q] # "idle"
                 /\ IF q = p THEN mine ELSE fresh[q] /\ scan[q].subnet # written]

\* backend.Delete of a Block key: the error it returns.
StoreDeleteErr(c) == IF blocks[c].present THEN "nil" ELSE "NotFound"

\* backend.Delete of a Block Affinity key: the error it returns.
StoreDeleteAffErr(host, c) == IF <<host, c>> \in affs THEN "nil" ELSE "NotFound"

\* Whether the next store or catalog call may fail with an arbitrary error.
FailChoices == IF faults > 0 THEN {FALSE, TRUE} ELSE {FALSE}

\* ---------------------------------------------------------------- records

NoCall == [name |-> "none", host |-> NoHost, version |-> 0, pool |-> NilCIDR,
           cidr |-> NilCIDR, strict |-> FALSE]
NoScan == [pools |-> <<>>, pi |-> 1, ip |-> [ver |-> 0, addr |-> 0], subnet |-> NilCIDR]
NoPrev == [host |-> NoHost, cidr |-> NilCIDR]
NoStart == [blocks |-> [c \in BlockKeys |-> NoBlock], affs |-> {}, prev |-> NoPrev]
\* writes, gets: store calls issued; lostAt, lostTo, laterFree: the candidate
\* whose Create returned already-exists, the affinity of the block in the way
\* and whether a later candidate had no block then; sawAff: the affinity of
\* the block the last Get of a release returned.  Of claimNewAffineBlock:
\* catalogFailed, the catalog read returned an error; scanGets, getErr: the
\* Gets of its scan and the error of the last one; claims: its calls of
\* claimBlockAffinity.  Of claimBlockAffinity: creates, created: the Creates
\* of a Block it issued and the Block it created; reread: the affinity of the
\* block its re-read returned; delErr: the error of its cleanup Delete.  Of
\* releaseBlockAffinity: upd, conf: its Updates and those that conflicted;
\* mutated: its Delete or Update of the Block succeeded; deleted: the affinity
\* of the Block its Delete removed; affDel: the error of its Delete of the
\* Block Affinity record.  "none": no such call was made.
NoSteps == [writes |-> 0, gets |-> 0, lostAt |-> NilCIDR, lostTo |-> NoHost,
            laterFree |-> FALSE, sawAff |-> NoHost,
            catalogFailed |-> FALSE, scanGets |-> 0, getErr |-> "none", claims |-> 0,
            creates |-> 0, created |-> NilCIDR, reread |-> "none", delErr |-> "none",
            upd |-> 0, conf |-> 0, mutated |-> FALSE, deleted |-> "none",
            affDel |-> "none"]
NoDone == [proc |-> 0, name |-> "none", host |-> NoHost, version |-> 0,
           pool |-> NilCIDR, pools |-> <<>>,
           target |-> NilCIDR, cidr |-> NilCIDR, err |-> "none", block |-> NoBlock,
           alone |-> FALSE, start |-> NoStart, steps |-> NoSteps]

Active(p) == pc[p] # "idle"
Quiescent == \A p \in Procs : ~Active(p)

\* The IPAMConfig each client process passes to its calls.
Config(p) == [StrictAffinity |-> (p # 1)]

\* ------------------------------------------------- predicates of the code

\* Line 161: the existing block has affinity to this host.
AffinityIsOurs_anyHost(b, host) == b.aff # NoHost

AffinityIsOurs_never(b, host) == FALSE

AffinityIsOurs(b, host) == b.aff # NoHost /\ b.aff = host

\* Line 197: the block's affinity is set and names another host.
AffinityMismatch_never(b, host) == FALSE

AffinityMismatch(b, host) == b.aff # NoHost /\ b.aff # host

\* Line 220: b.HostAffinity = nil.
ClearedAffinity_kept(b) == b

ClearedAffinity(b) == [b EXCEPT !.aff = NoHost]

\* getAffineBlocks (lines 36-60): the block CIDRs of the Block Affinity
\* records of host and IP version.
getAffineBlocks(host, version) ==
    { a[2] : a \in { b \in affs : b[1] = host /\ b[2].ver = version } }

\* isConfiguredPool (lines 269-278) over the items the catalog returned.
isConfiguredPool_anyPool(items, cidr) ==
    \E k \in 1..Len(items) : items[k].CIDR = cidr

isConfiguredPool(items, cidr) ==
    \E k \in 1..Len(items) : ~items[k].Disabled /\ items[k].CIDR = cidr

\* withinConfiguredPools (lines 256-265) over the items the catalog returned.
withinConfiguredPools(items, ip) ==
    \E k \in 1..Len(items) : ~items[k].Disabled /\ Contains(items[k].CIDR, ip)

\* Lines 87-93: the enabled pools of the requested version, in catalog order.
RECURSIVE EligiblePools(_, _)
EligiblePools(items, version) ==
    IF items = <<>> THEN <<>>
    ELSE LET p == Head(items)
             rest == EligiblePools(Tail(items), version)
         IN  IF ~p.Disabled /\ version = p.CIDR.ver THEN <<p.CIDR>> \o rest ELSE rest

\* Lines 67-99: the pools to search, or the error the call ends with.
\* catalogFails: client.Pools().List returned an error.
ResolvePools(pool, version, catalogFails) ==
    LET items == IF catalogFails THEN <<>> ELSE catalog
    IN  IF pool # NilCIDR
        THEN IF ~isConfiguredPool(items, pool)
             THEN [err |-> "PoolDoesNotExist", pools |-> <<>>]
             ELSE IF version # pool.ver
             THEN [err |-> "PoolVersionMismatch", pools |-> <<>>]
             ELSE [err |-> "nil", pools |-> <<pool>>]
        ELSE IF catalogFails
             THEN [err |-> "CatalogError", pools |-> <<>>]
             ELSE LET ps == EligiblePools(items, version)
                  IN  IF Len(ps) = 0
                      THEN [err |-> "NoConfiguredPools", pools |-> <<>>]
                      ELSE [err |-> "nil", pools |-> ps]

\* Lines 103-107: the generator calls up to the next candidate, moving on to
\* the next pool when a generator returns nil; subnet is NilCIDR when every
\* pool is exhausted.
RECURSIVE NextCandidate(_, _, _)
NextCandidate(pools, pi, ip) ==
    IF pi > Len(pools) THEN [pi |-> pi, ip |-> ip, subnet |-> NilCIDR]
    ELSE LET g == blockGeneratorNext(pools[pi], ip)
         IN  IF g.subnet # NilCIDR
             THEN [pi |-> pi, ip |-> g.ip, subnet |-> g.subnet]
             ELSE NextCandidate(pools, pi + 1,
                                IF pi + 1 <= Len(pools) THEN PoolIP(pools[pi + 1]) ELSE g.ip)

\* ---------------------------------------------------------- bookkeeping

\* The candidates the scan would still reach from a generator state.
RECURSIVE RestCandidates(_, _, _)
RestCandidates(pools, pi, ip) ==
    LET n == NextCandidate(pools, pi, ip)
    IN  IF n.subnet = NilCIDR THEN {}
        ELSE {n.subnet} \cup RestCandidates(pools, n.pi, n.ip)

IsClaim(name) == name \in {"claimNewAffineBlock", "claimBlockAffinity"}

\* The store as a call starting now finds it, and the claimBlockAffinity that
\* has just returned success, if one has.
Snapshot ==
    [blocks |-> blocks, affs |-> affs,
     prev |-> IF lastDone.name = "claimBlockAffinity" /\ lastDone.err = "nil"
              THEN [host |-> lastDone.host, cidr |-> lastDone.target]
              ELSE NoPrev]

\* A call starts and returns err in the same step.
BeginAndFinish(p, cl, err, st) ==
    /\ ncalls < limit
    /\ ~Active(p)
    /\ ncalls' = ncalls + 1
    /\ start' = [q \in Procs |-> NoStart]
    /\ alone' = [q \in Procs |-> FALSE]
    /\ lastDone' = [proc |-> p, name |-> cl.name, host |-> NoHost,
                    version |-> cl.version, pool |-> cl.pool, pools |-> <<>>,
                    target |-> NilCIDR,
                    cidr |-> NilCIDR, err |-> err, block |-> NoBlock, alone |-> Quiescent,
                    start |-> IF Quiescent THEN Snapshot ELSE NoStart, steps |-> st]
    /\ UNCHANGED <<storeVars, fresh, pc, call, scan, obj, i, steps, succ, anyRelease,
                   limit, catalog, envWrites, genVars>>

\* A call starts at label: snapshots for the history, kept while the call is
\* alone; every call that is running stops being alone.
Begin(p, cl, label, sc) ==
    /\ ncalls < limit
    /\ ~Active(p)
    /\ ncalls' = ncalls + 1
    /\ pc' = [pc EXCEPT ![p] = label]
    /\ call' = [call EXCEPT ![p] = cl]
    /\ scan' = [scan EXCEPT ![p] = sc]
    /\ obj' = [obj EXCEPT ![p] = NoBlock]
    /\ i' = [i EXCEPT ![p] = 0]
    /\ start' = [q \in Procs |-> IF q = p /\ Quiescent THEN Snapshot ELSE NoStart]
    /\ alone' = [q \in Procs |-> q = p /\ Quiescent]
    /\ steps' = [steps EXCEPT ![p] = NoSteps]
    /\ lastDone' = NoDone
    /\ anyRelease' = (anyRelease \/ cl.name = "releaseBlockAffinity")
    /\ succ' = IF cl.name = "releaseBlockAffinity" THEN {} ELSE succ
    /\ UNCHANGED <<storeVars, fresh, limit, catalog, envWrites, genVars>>

\* The call of p goes on at label with its locals updated.
Goto(p, label, sc, ob, ii, st) ==
    /\ pc' = [pc EXCEPT ![p] = label]
    /\ scan' = [scan EXCEPT ![p] = sc]
    /\ obj' = [obj EXCEPT ![p] = ob]
    /\ i' = [i EXCEPT ![p] = ii]
    /\ steps' = [steps EXCEPT ![p] = st]
    /\ lastDone' = NoDone
    /\ UNCHANGED <<call, start, alone, succ, anyRelease, ncalls, limit, catalog, envWrites, genVars>>

\* The call of p returns (cidr, err), with blk in an affinityClaimedError;
\* target is the block key the call was about.  Its locals are gone.
Finish(p, target, cidr, err, blk, st) ==
    /\ pc' = [pc EXCEPT ![p] = "idle"]
    /\ call' = [call EXCEPT ![p] = NoCall]
    /\ scan' = [scan EXCEPT ![p] = NoScan]
    /\ obj' = [obj EXCEPT ![p] = NoBlock]
    /\ i' = [i EXCEPT ![p] = 0]
    /\ start' = [start EXCEPT ![p] = NoStart]
    /\ alone' = [alone EXCEPT ![p] = FALSE]
    /\ steps' = [steps EXCEPT ![p] = NoSteps]
    /\ lastDone' = [proc |-> p, name |-> call[p].name, host |-> call[p].host,
                    version |-> call[p].version, pool |-> call[p].pool,
                    pools |-> scan[p].pools, target |-> target, cidr |-> cidr, err |-> err, block |-> blk,
                    alone |-> alone[p], start |-> start[p], steps |-> st]
    /\ succ' = IF err = "nil" /\ IsClaim(call[p].name) /\ ~anyRelease
               THEN succ \cup {<<target, call[p].host>>} ELSE succ
    /\ UNCHANGED <<anyRelease, ncalls, limit, catalog, envWrites, genVars>>

Fault(fail) == faults' = IF fail THEN faults - 1 ELSE faults

Wrote(p) == [steps[p] EXCEPT !.writes = @ + 1]
Got(p) == [steps[p] EXCEPT !.gets = @ + 1]

\* --------------------------------------------------- claimNewAffineBlock

\* Lines 62-99: the call starts, reads the catalog and resolves its pools.
StartClaimNew(p) ==
    \E host \in Hosts, version \in Versions, pool \in PoolArgs, fail \in FailChoices :
        LET r == ResolvePools(pool, version, fail)
            cl == [name |-> "claimNewAffineBlock", host |-> host, version |-> version,
                   pool |-> pool, cidr |-> NilCIDR, strict |-> Config(p).StrictAffinity]
        IN  /\ Fault(fail)
            /\ IF r.err # "nil"
               THEN BeginAndFinish(p, cl, r.err, [NoSteps EXCEPT !.catalogFailed = fail])
               ELSE Begin(p, cl, "cn_get",
                          [pools |-> r.pools, pi |-> 1, ip |-> PoolIP(r.pools[1]),
                           subnet |-> NilCIDR])

\* Lines 103-125: the next candidate of the generators and the Get of its block.
ClaimNewGet(p) ==
    /\ pc[p] = "cn_get"
    /\ UNCHANGED <<storeVars, fresh>>
    /\ LET n == NextCandidate(scan[p].pools, scan[p].pi, scan[p].ip)
           sc == [scan[p] EXCEPT !.pi = n.pi, !.ip = n.ip, !.subnet = n.subnet]
       IN  IF n.subnet = NilCIDR
           THEN /\ Finish(p, NilCIDR, NilCIDR, "NoFreeBlocks", NoBlock, steps[p])
                /\ UNCHANGED faults
           ELSE \E fail \in FailChoices :
                LET g == StoreGet(n.subnet)
                    e == IF fail THEN "StoreError" ELSE g.err
                    st == [Got(p) EXCEPT !.scanGets = @ + 1, !.getErr = e]
                IN  /\ Fault(fail)
                    /\ IF e = "nil" THEN Goto(p, "cn_get", sc, obj[p], i[p], st)
                       ELSE IF e = "NotFound"
                       THEN Goto(p, "cba_aff", sc, obj[p], i[p], st)
                       ELSE Finish(p, n.subnet, NilCIDR, e, NoBlock, st)

\* ---------------------------------------------------- claimBlockAffinity

\* What the caller of claimBlockAffinity returns with its error:
\* claimNewAffineBlock returns subnet with it (line 117).
RetCIDR(p) == IF call[p].name = "claimNewAffineBlock" THEN scan[p].subnet ELSE NilCIDR

\* Line 128 called on its own.
StartClaimAffinity(p) ==
    \E host \in Hosts, cidr \in ArgCIDRs :
        /\ Begin(p, [name |-> "claimBlockAffinity", host |-> host, version |-> cidr.ver,
                     pool |-> NilCIDR, cidr |-> cidr, strict |-> Config(p).StrictAffinity],
                 "cba_aff", [NoScan EXCEPT !.subnet = cidr])
        /\ UNCHANGED faults

\* Lines 131-135: Create of the Block Affinity record; its error is dropped.
ClaimCreateAffinity(p) ==
    /\ pc[p] = "cba_aff"
    /\ UNCHANGED <<blocks, fresh>>
    /\ \E fail \in FailChoices :
        /\ Fault(fail)
        /\ affs' = IF fail THEN affs ELSE affs \cup {<<call[p].host, scan[p].subnet>>}
    /\ Goto(p, "cba_block", scan[p], obj[p], i[p], [Wrote(p) EXCEPT !.claims = @ + 1])

\* Lines 137-148, 177-181: Create of the Block record.
ClaimCreateBlock(p) ==
    /\ pc[p] = "cba_block"
    /\ UNCHANGED affs
    /\ \E fail \in FailChoices :
        LET c == scan[p].subnet
            e == IF fail THEN "StoreError" ELSE StoreCreateErr(c)
            w == [Wrote(p) EXCEPT !.creates = @ + 1,
                                  !.created = IF e = "nil" THEN c ELSE @]
            st == IF e = "AlreadyExists"
                  THEN [w EXCEPT
                           !.lostAt = c,
                           !.lostTo = blocks[c].aff,
                           !.laterFree =
                               \E d \in RestCandidates(scan[p].pools, scan[p].pi, scan[p].ip) :
                                   ~blocks[d].present]
                  ELSE w
        IN  /\ Fault(fail)
            /\ blocks' = IF e = "nil"
                         THEN [blocks EXCEPT ![c] = newBlock(call[p].host, call[p].strict)]
                         ELSE blocks
            /\ IF e = "AlreadyExists" THEN Goto(p, "cba_get", scan[p], obj[p], i[p], st)
               ELSE Finish(p, c, RetCIDR(p), e, NoBlock, st)
            /\ Fresh(p, FALSE, IF e = "nil" THEN c ELSE NilCIDR)

\* Lines 149-166: the block exists; read it and check its affinity.
ClaimReread(p) ==
    /\ pc[p] = "cba_get"
    /\ UNCHANGED storeVars
    /\ \E fail \in FailChoices :
        LET c == scan[p].subnet
            g == StoreGet(c)
            e == IF fail THEN "StoreError" ELSE g.err
            st == [Got(p) EXCEPT !.reread = IF e = "nil" THEN g.kv.aff ELSE @]
        IN  /\ Fault(fail)
            /\ IF e # "nil" THEN Finish(p, c, RetCIDR(p), e, NoBlock, st)
               ELSE IF AffinityIsOurs(g.kv, call[p].host)
               THEN Finish(p, c, RetCIDR(p), "nil", NoBlock, st)
               ELSE Goto(p, "cba_del", scan[p], g.kv, i[p], st)
            /\ Fresh(p, e = "nil", NilCIDR)

\* Lines 171-175: the error the cleanup ends with, e being its Delete's.
CleanupResult_ignored(e) == "AffinityClaimed"

CleanupResult(e) == IF e # "nil" THEN e ELSE "AffinityClaimed"

\* Lines 168-176 with the scan of claimNewAffineBlock going on to the next
\* candidate after the cleanup, instead of line 117's return.
ClaimCleanup_fallThrough(p) ==
    /\ pc[p] = "cba_del"
    /\ UNCHANGED blocks
    /\ \E fail \in FailChoices :
        LET c == scan[p].subnet
            e == IF fail THEN "StoreError" ELSE StoreDeleteAffErr(call[p].host, c)
        IN  /\ Fault(fail)
            /\ affs' = IF e = "nil" THEN affs \ {<<call[p].host, c>>} ELSE affs
            /\ IF e # "nil" THEN Finish(p, c, RetCIDR(p), e, NoBlock, Wrote(p))
               ELSE IF call[p].name = "claimNewAffineBlock"
               THEN Goto(p, "cn_get", scan[p], NoBlock, i[p], Wrote(p))
               ELSE Finish(p, c, RetCIDR(p), "AffinityClaimed", obj[p], Wrote(p))
            /\ Fresh(p, FALSE, NilCIDR)

\* Lines 168-176: another host has the block; delete our affinity record.
ClaimCleanup(p) ==
    /\ pc[p] = "cba_del"
    /\ UNCHANGED blocks
    /\ \E fail \in FailChoices :
        LET c == scan[p].subnet
            e == IF fail THEN "StoreError" ELSE StoreDeleteAffErr(call[p].host, c)
        IN  /\ Fault(fail)
            /\ affs' = IF e = "nil" THEN affs \ {<<call[p].host, c>>} ELSE affs
            /\ Finish(p, c, RetCIDR(p), CleanupResult(e),
                      IF e = "nil" THEN obj[p] ELSE NoBlock,
                      [Wrote(p) EXCEPT !.delErr = e])
            /\ Fresh(p, FALSE, NilCIDR)

\* --------------------------------------------------- releaseBlockAffinity

\* Line 185: the loop condition, after i++.
LoopAgain_never(ii) == FALSE

LoopAgain(ii) == ii < ipamEtcdRetries

\* Lines 239-248: what the release returns after its Delete of the Block
\* Affinity record returned e.
AffinityDeleteResult_surfaced(e) == IF e \in {"nil", "NotFound"} THEN "nil" ELSE e

AffinityDeleteResult(e) == "nil"

\* Line 184: the call starts, i := 0.
StartRelease(p) ==
    \E host \in Hosts, cidr \in ArgCIDRs :
        /\ Begin(p, [name |-> "releaseBlockAffinity", host |-> host, version |-> cidr.ver,
                     pool |-> NilCIDR, cidr |-> cidr, strict |-> FALSE],
                 "rel_get", [NoScan EXCEPT !.subnet = cidr])
        /\ UNCHANGED faults

\* Lines 189-202: Get of the block, the affinity check, the choice of branch.
ReleaseGet(p) ==
    /\ pc[p] = "rel_get"
    /\ UNCHANGED storeVars
    /\ \E fail \in FailChoices :
        LET c == call[p].cidr
            g == StoreGet(c)
            e == IF fail THEN "StoreError" ELSE g.err
            st == [Got(p) EXCEPT !.sawAff = IF fail THEN NoHost ELSE g.kv.aff]
        IN  /\ Fault(fail)
            /\ IF e # "nil" THEN Finish(p, c, NilCIDR, e, NoBlock, st)
               ELSE IF AffinityMismatch(g.kv, call[p].host)
               THEN Finish(p, c, NilCIDR, "AffinityClaimed", g.kv, st)
               ELSE IF g.kv.empty THEN Goto(p, "rel_del", scan[p], g.kv, i[p], st)
               ELSE Goto(p, "rel_upd", scan[p], g.kv, i[p], st)
            /\ Fresh(p, e = "nil", NilCIDR)

\* Lines 203-214: the block is empty; Delete it.
ReleaseDeleteBlock(p) ==
    /\ pc[p] = "rel_del"
    /\ UNCHANGED affs
    /\ \E fail \in FailChoices :
        LET c == call[p].cidr
            e == IF fail THEN "StoreError" ELSE StoreDeleteErr(c)
        IN  /\ Fault(fail)
            /\ blocks' = IF e = "nil" THEN [blocks EXCEPT ![c] = NoBlock] ELSE blocks
            /\ IF e \in {"nil", "NotFound"}
               THEN Goto(p, "rel_aff", scan[p], obj[p], i[p],
                         [Wrote(p) EXCEPT !.mutated = (e = "nil"),
                                          !.deleted = IF e = "nil" THEN blocks[c].aff ELSE @])
               ELSE Finish(p, c, NilCIDR, e, NoBlock, Wrote(p))
            /\ Fresh(p, FALSE, IF e = "nil" THEN c ELSE NilCIDR)

\* Lines 215-234: the block is not empty; clear its affinity with a
\* compare-and-swap Update, and loop on an update conflict (lines 185, 251).
ReleaseUpdate(p) ==
    /\ pc[p] = "rel_upd"
    /\ UNCHANGED affs
    /\ \E fail \in FailChoices :
        LET c == call[p].cidr
            e == IF fail THEN "StoreError" ELSE StoreUpdateErr(c, p)
            st == [Wrote(p) EXCEPT !.upd = @ + 1,
                                   !.conf = IF e = "UpdateConflict" THEN @ + 1 ELSE @,
                                   !.mutated = (e = "nil")]
        IN  /\ Fault(fail)
            /\ blocks' = IF e = "nil"
                         THEN [blocks EXCEPT ![c] = ClearedAffinity(obj[p])]
                         ELSE blocks
            /\ IF e = "nil" THEN Goto(p, "rel_aff", scan[p], obj[p], i[p], st)
               ELSE IF e = "UpdateConflict"
               THEN IF LoopAgain(i[p] + 1)
                    THEN Goto(p, "rel_get", scan[p], obj[p], i[p] + 1, st)
                    ELSE Finish(p, c, NilCIDR, "MaxRetries", NoBlock, st)
               ELSE Finish(p, c, NilCIDR, e, NoBlock, st)
            /\ Fresh(p, FALSE, IF e = "nil" THEN c ELSE NilCIDR)

\* Lines 236-248: Delete of the Block Affinity record; its outcome is only logged.
ReleaseDeleteAffinity(p) ==
    /\ pc[p] = "rel_aff"
    /\ UNCHANGED blocks
    /\ \E fail \in FailChoices :
        LET c == call[p].cidr
            e == IF fail THEN "StoreError" ELSE StoreDeleteAffErr(call[p].host, c)
        IN  /\ Fault(fail)
            /\ affs' = IF e = "nil" THEN affs \ {<<call[p].host, c>>} ELSE affs
            /\ Finish(p, c, NilCIDR, AffinityDeleteResult(e), NoBlock,
                      [Wrote(p) EXCEPT !.affDel = e])
            /\ Fresh(p, FALSE, NilCIDR)

\* ---------------------------------------------------- address assignment

\* An address of an existing block is leased by the allocation path (not in
\* this file): the block stops being empty and gets a new revision.  Only
\* releaseBlockAffinity reads emptiness, so the blocks it is called on are
\* the ones that matter.
AssignAddress(c) ==
    /\ envWrites < MaxEnvWrites
    /\ blocks[c].present
    /\ envWrites' = envWrites + 1
    /\ blocks' = [blocks EXCEPT ![c].empty = FALSE]
    /\ fresh' = [q \in Procs |-> fresh[q] /\ scan[q].subnet # c]
    /\ alone' = [q \in Procs |-> FALSE]
    /\ start' = [q \in Procs |-> NoStart]
    /\ lastDone' = NoDone
    /\ UNCHANGED <<affs, pc, call, scan, obj, i, ncalls, limit, catalog, faults, steps, succ,
                   anyRelease, genVars>>

\* ------------------------------------------------------ the specification

InitStore ==
    /\ blocks = [c \in BlockKeys |-> NoBlock]
    /\ affs = {}
    /\ fresh = [p \in Procs |-> FALSE]

InitProcs ==
    /\ pc = [p \in Procs |-> "idle"]
    /\ call = [p \in Procs |-> NoCall]
    /\ scan = [p \in Procs |-> NoScan]
    /\ obj = [p \in Procs |-> NoBlock]
    /\ i = [p \in Procs |-> 0]
    /\ ncalls = 0
    /\ envWrites = 0
    /\ start = [p \in Procs |-> NoStart]
    /\ alone = [p \in Procs |-> FALSE]
    /\ steps = [p \in Procs |-> NoSteps]
    /\ lastDone = NoDone
    /\ succ = {}
    /\ anyRelease = FALSE

NoGen == [pool |-> NilCIDR, ip |-> [ver |-> 0, addr |-> 0], out |-> <<>>, done |-> TRUE]
NoRnd == [pool |-> NilCIDR, idxs |-> <<>>, out |-> <<>>, done |-> TRUE]

Init ==
    /\ InitStore
    /\ InitProcs
    /\ limit = MaxCalls
    /\ catalog = Pools
    /\ faults = 0
    /\ gen = NoGen
    /\ rnd = NoRnd

Next ==
    \/ \E p \in Procs : StartClaimNew(p)
    \/ \E p \in Procs : ClaimNewGet(p)
    \/ \E p \in Procs : StartClaimAffinity(p)
    \/ \E p \in Procs : ClaimCreateAffinity(p)
    \/ \E p \in Procs : ClaimCreateBlock(p)
    \/ \E p \in Procs : ClaimReread(p)
    \/ \E p \in Procs : ClaimCleanup(p)
    \/ \E p \in Procs : StartRelease(p)
    \/ \E p \in Procs : ReleaseGet(p)
    \/ \E p \in Procs : ReleaseDeleteBlock(p)
    \/ \E p \in Procs : ReleaseUpdate(p)
    \/ \E p \in Procs : ReleaseDeleteAffinity(p)
    \/ \E c \in ArgCIDRs : AssignAddress(c)

Spec == Init /\ [][Next]_vars

\* The same calls made one after the other: a call starts only when no call
\* is running, and no address is assigned while one runs.
NextSeq ==
    \/ \E p \in Procs : Quiescent /\ StartClaimNew(p)
    \/ \E p \in Procs : ClaimNewGet(p)
    \/ \E p \in Procs : Quiescent /\ StartClaimAffinity(p)
    \/ \E p \in Procs : ClaimCreateAffinity(p)
    \/ \E p \in Procs : ClaimCreateBlock(p)
    \/ \E p \in Procs : ClaimReread(p)
    \/ \E p \in Procs : ClaimCleanup(p)
    \/ \E p \in Procs : Quiescent /\ StartRelease(p)
    \/ \E p \in Procs : ReleaseGet(p)
    \/ \E p \in Procs : ReleaseDeleteBlock(p)
    \/ \E p \in Procs : ReleaseUpdate(p)
    \/ \E p \in Procs : ReleaseDeleteAffinity(p)
    \/ \E c \in ArgCIDRs : Quiescent /\ AssignAddress(c)

InitSeq ==
    /\ InitStore
    /\ InitProcs
    /\ limit = MaxSeqCalls
    /\ catalog = Pools
    /\ faults = 0
    /\ gen = NoGen
    /\ rnd = NoRnd

SpecSeq == InitSeq /\ [][NextSeq]_vars

\* Overlapping calls of claimBlockAffinity and releaseBlockAffinity on given
\* blocks, without the scan of claimNewAffineBlock.
NextDirect ==
    \/ \E p \in Procs : StartClaimAffinity(p)
    \/ \E p \in Procs : ClaimCreateAffinity(p)
    \/ \E p \in Procs : ClaimCreateBlock(p)
    \/ \E p \in Procs : ClaimReread(p)
    \/ \E p \in Procs : ClaimCleanup(p)
    \/ \E p \in Procs : StartRelease(p)
    \/ \E p \in Procs : ReleaseGet(p)
    \/ \E p \in Procs : ReleaseDeleteBlock(p)
    \/ \E p \in Procs : ReleaseUpdate(p)
    \/ \E p \in Procs : ReleaseDeleteAffinity(p)
    \/ \E c \in ArgCIDRs : AssignAddress(c)

InitDirect ==
    /\ InitStore
    /\ InitProcs
    /\ limit = MaxDirectCalls
    /\ catalog = Pools
    /\ faults = 0
    /\ gen = NoGen
    /\ rnd = NoRnd

SpecDirect == InitDirect /\ [][NextDirect]_vars

\* The calls overlapping as in Spec, with store and catalog calls that may
\* fail with an arbitrary error, under either catalog.
InitFault ==
    /\ InitStore
    /\ InitProcs
    /\ limit = MaxFaultCalls
    /\ catalog \in Catalogs
    /\ faults = MaxFaults
    /\ gen = NoGen
    /\ rnd = NoRnd

SpecFault == InitFault /\ [][Next]_vars

\* -------------------------------------------- the generators on their own

\* The pools handed to the generators: every aligned IPv4 and IPv6 CIDR of
\* half a block up to GenMaxBlocks blocks inside GenSlots blocks of address space.
GenBase(ver) == IF ver = 4 THEN Base4 ELSE 0

GenPools ==
    { [ver |-> t[1], addr |-> GenBase(t[1]) + t[3] * Exp2(t[2]), ones |-> Bits(t[1]) - t[2]] :
        t \in { u \in Versions \X (5..10) \X (0..(2 * GenSlots)) :
                    /\ Exp2(u[2]) <= GenMaxBlocks * blockSize
                    /\ (u[3] + 1) * Exp2(u[2]) <= GenSlots * blockSize } }

GenNext ==
    /\ ~gen.done
    /\ LET r == blockGeneratorNext(gen.pool, gen.ip)
       IN  gen' = [gen EXCEPT !.ip = r.ip,
                              !.out = IF r.subnet = NilCIDR THEN @ ELSE Append(@, r.subnet),
                              !.done = (r.subnet = NilCIDR)]
    /\ UNCHANGED <<storeVars, fresh, pc, call, scan, obj, i, ncalls, limit, catalog, envWrites,
                   faults, start, alone, steps, lastDone, succ, anyRelease, rnd>>

RndNext ==
    /\ ~rnd.done
    /\ LET r == randomBlockGeneratorNext(rnd.pool, rnd.idxs)
       IN  rnd' = [rnd EXCEPT !.idxs = r.idxs,
                              !.out = IF r.subnet = NilCIDR THEN @ ELSE Append(@, r.subnet),
                              !.done = (r.subnet = NilCIDR)]
    /\ UNCHANGED <<storeVars, fresh, pc, call, scan, obj, i, ncalls, limit, catalog, envWrites,
                   faults, start, alone, steps, lastDone, succ, anyRelease, gen>>

InitGen ==
    /\ InitStore
    /\ InitProcs
    /\ limit = 0
    /\ catalog = Pools
    /\ faults = 0
    /\ \E pool \in GenPools :
        /\ gen = [pool |-> pool, ip |-> PoolIP(pool), out |-> <<>>, done |-> FALSE]
        /\ \E idxs \in Perm(numBlocks(pool)) :
            rnd = [pool |-> pool, idxs |-> idxs, out |-> <<>>, done |-> FALSE]

NextGen == GenNext \/ RndNext

SpecGen == InitGen /\ [][NextGen]_vars

\* ================================================================ claims

Range(seq) == { seq[k] : k \in 1..Len(seq) }

\* C2 (enumeration completeness): once blockGenerator(pool) has returned nil
\* for a pool of N >= blockSize addresses, it has yielded exactly
\* N / blockSize CIDRs: the blocks of the pool in ascending order from the
\* pool base, the last block included.
C2_EnumerationComplete ==
    (gen.pool # NilCIDR /\ gen.done /\ Size(gen.pool) >= blockSize) =>
        /\ Len(gen.out) = Size(gen.pool) \div blockSize
        /\ \A k \in 1..Len(gen.out) :
               gen.out[k] = BlockCIDR(incrementIP(PoolIP(gen.pool), (k - 1) * blockSize))

\* C3 (randomized enumeration is a permutation): once both generators have
\* returned nil for the same pool, randomBlockGenerator has yielded exactly
\* the CIDRs blockGenerator has yielded, each once.
C3_RandomIsPermutation ==
    (gen.pool # NilCIDR /\ gen.done /\ rnd.done) =>
        /\ Range(rnd.out) = Range(gen.out)
        /\ Cardinality(Range(rnd.out)) = Len(rnd.out)

\* C1 (no double ownership): while no release has run, every claim that
\* returned success for a block names the host in that block's affinity, so
\* no two hosts both hold a success for the same block.
C1_NoDoubleOwnership ==
    ~anyRelease =>
        \A s \in succ :
            /\ blocks[s[1]].present
            /\ blocks[s[1]].aff = s[2]
            /\ \A t \in succ : t[1] = s[1] => t[2] = s[2]

\* Two hosts raced for one block: one holds a success, the other lost the
\* Create of the Block and came back with the claimed-by-another error.
C1_Witness ==
    /\ ~anyRelease
    /\ IsClaim(lastDone.name)
    /\ lastDone.err = "AffinityClaimed"
    /\ lastDone.steps.lostAt = lastDone.target
    /\ \E s \in succ : s[1] = lastDone.target /\ s[2] # lastDone.host

\* C4 (affinity index agreement): in a quiescent state every Block Affinity
\* record of a block that exists with an affinity names that block's host.
C4_AffinityIndexAgrees ==
    Quiescent =>
        \A c \in BlockKeys :
            (blocks[c].present /\ blocks[c].aff # NoHost) =>
                \A a \in affs : a[2] = c => a[1] = blocks[c].aff

\* C5 (lost race falls through): a claimNewAffineBlock whose Create lost a
\* candidate to another host, with a later candidate free, returns success
\* for another block.
C5_LoserFallsThrough ==
    (/\ lastDone.name = "claimNewAffineBlock"
     /\ lastDone.steps.lostAt # NilCIDR
     /\ lastDone.steps.lostTo \notin {NoHost, lastDone.host}
     /\ lastDone.steps.laterFree) =>
        /\ lastDone.err = "nil"
        /\ lastDone.cidr # NilCIDR
        /\ lastDone.cidr # lastDone.steps.lostAt

\* C5 as the code has it: a claimNewAffineBlock whose Create lost a candidate
\* examines no further candidate.  It returns for that candidate, with an
\* error unless its re-read finds the block affine to its own host; the
\* claimed-by-another error carries a block of another affinity.
C5_LoserReturnsAtCandidate ==
    (lastDone.name = "claimNewAffineBlock" /\ lastDone.steps.lostAt # NilCIDR) =>
        /\ lastDone.target = lastDone.steps.lostAt
        /\ lastDone.cidr = lastDone.steps.lostAt
        /\ lastDone.err \in {"nil", "AffinityClaimed", "NotFound", "StoreError"}
        /\ lastDone.err = "AffinityClaimed" =>
               lastDone.block.present /\ lastDone.block.aff # lastDone.host
        /\ lastDone.err = "nil" =>
               blocks[lastDone.target].present /\ blocks[lastDone.target].aff = lastDone.host

\* The loser of a race between two hosts has returned the error although a
\* later candidate was free.
C5_Witness ==
    /\ lastDone.name = "claimNewAffineBlock"
    /\ lastDone.steps.lostAt # NilCIDR
    /\ lastDone.steps.lostTo \notin {NoHost, lastDone.host}
    /\ lastDone.steps.laterFree
    /\ lastDone.err = "AffinityClaimed"

\* The blocks of the pools a call resolved that had no Block when it started.
FreeAtStart(d) ==
    { c \in UNION { BlocksOf(d.pools[k]) : k \in 1..Len(d.pools) } :
        ~d.start.blocks[c].present }

\* The lowest free block of the first pool that has one.
RECURSIVE FirstFree(_, _)
FirstFree(pools, blks) ==
    IF pools = <<>> THEN NilCIDR
    ELSE LET free == { c \in BlocksOf(pools[1]) : ~blks[c].present }
         IN  IF free # {}
             THEN CHOOSE c \in free : \A d \in free : c.addr <= d.addr
             ELSE FirstFree(Tail(pools), blks)

\* C6 (exhaustion): a claimNewAffineBlock running alone returns the
\* no-free-blocks error exactly when every block of every pool it resolved
\* already exists, and returns a free block otherwise.
C6_NoFreeBlocksIffFull ==
    (lastDone.name = "claimNewAffineBlock" /\ lastDone.alone /\ lastDone.pools # <<>>) =>
        /\ lastDone.err = "NoFreeBlocks" <=> FreeAtStart(lastDone) = {}
        /\ FreeAtStart(lastDone) # {} =>
               lastDone.err = "nil" /\ lastDone.cidr \in FreeAtStart(lastDone)

\* C7 (lowest free block wins): a claimNewAffineBlock running alone with a
\* free block in its pools returns the lowest free block of the first pool
\* that has one.
C7_LowestFreeBlockWins ==
    (/\ lastDone.name = "claimNewAffineBlock"
     /\ lastDone.alone
     /\ lastDone.pools # <<>>
     /\ FreeAtStart(lastDone) # {}) =>
        /\ lastDone.err = "nil"
        /\ lastDone.cidr = FirstFree(lastDone.pools, lastDone.start.blocks)

\* C8 (idempotent re-claim): claimBlockAffinity(cidr, host) running alone
\* right after a successful claimBlockAffinity(cidr, host) returns success
\* and leaves every Block as it found it, the block affine to host.
C8_IdempotentReclaim ==
    (/\ lastDone.name = "claimBlockAffinity"
     /\ lastDone.alone
     /\ lastDone.start.prev = [host |-> lastDone.host, cidr |-> lastDone.target]) =>
        /\ lastDone.err = "nil"
        /\ blocks = lastDone.start.blocks
        /\ blocks[lastDone.target].present
        /\ blocks[lastDone.target].aff = lastDone.host

\* The second of two such calls has returned; it ran with another
\* StrictAffinity setting than the block was created with.
C8_Witness ==
    /\ lastDone.name = "claimBlockAffinity"
    /\ lastDone.alone
    /\ lastDone.start.prev = [host |-> lastDone.host, cidr |-> lastDone.target]
    /\ lastDone.err = "nil"
    /\ lastDone.steps.lostAt = lastDone.target
    /\ blocks[lastDone.target].strict # Config(lastDone.proc).StrictAffinity

\* C9 (release convergence): releaseBlockAffinity(host, cidr) running alone
\* on a block affine to host returns success after one Get; the block is gone
\* if it was empty and is otherwise the same block without its affinity; the
\* Block Affinity record of (host, cidr) is gone and no other block changed.
C9_ReleaseConverges ==
    (/\ lastDone.name = "releaseBlockAffinity"
     /\ lastDone.alone
     /\ lastDone.start.blocks[lastDone.target].present
     /\ lastDone.start.blocks[lastDone.target].aff = lastDone.host) =>
        LET c == lastDone.target
            b == lastDone.start.blocks[c]
        IN  /\ lastDone.err = "nil"
            /\ lastDone.steps.gets = 1
            /\ b.empty => ~blocks[c].present
            /\ ~b.empty => blocks[c] = [b EXCEPT !.aff = NoHost]
            /\ <<lastDone.host, c>> \notin affs
            /\ \A d \in BlockKeys \ {c} : blocks[d] = lastDone.start.blocks[d]

\* A release of a block with addresses in use has returned: the block is
\* still there.
C9_Witness ==
    /\ lastDone.name = "releaseBlockAffinity"
    /\ lastDone.alone
    /\ lastDone.start.blocks[lastDone.target].present
    /\ lastDone.start.blocks[lastDone.target].aff = lastDone.host
    /\ ~lastDone.start.blocks[lastDone.target].empty
    /\ <<lastDone.host, lastDone.target>> \in lastDone.start.affs
    /\ blocks[lastDone.target].present

\* C10 (release rejects a foreign host): a releaseBlockAffinity whose first
\* Get returns a block affine to another host returns the claimed-by-another
\* error carrying that block, and has issued no Update and no Delete.
C10_ReleaseRejectsForeign ==
    (/\ lastDone.name = "releaseBlockAffinity"
     /\ lastDone.steps.gets = 1
     /\ lastDone.steps.sawAff \notin {NoHost, lastDone.host}) =>
        /\ lastDone.err = "AffinityClaimed"
        /\ lastDone.block.present
        /\ lastDone.block.aff = lastDone.steps.sawAff
        /\ lastDone.block = blocks[lastDone.target]
        /\ lastDone.steps.writes = 0
        /\ lastDone.alone =>
               blocks = lastDone.start.blocks /\ affs = lastDone.start.affs

\* The release was rejected while a Block Affinity record of its own host
\* for that block was in the store; the record is still there.
C10_Witness ==
    /\ lastDone.name = "releaseBlockAffinity"
    /\ lastDone.steps.gets = 1
    /\ lastDone.steps.sawAff \notin {NoHost, lastDone.host}
    /\ lastDone.err = "AffinityClaimed"
    /\ <<lastDone.host, lastDone.target>> \in affs

\* C11 (bounded CAS retry): releaseBlockAffinity makes at most
\* ipamEtcdRetries Gets and Updates; it reads the block again only after an
\* Update that conflicted; when an Update succeeds after fewer than
\* ipamEtcdRetries conflicts it returns success; it returns the max-retries
\* error exactly when ipamEtcdRetries Updates conflicted.
C11_BoundedRetry ==
    /\ \A p \in Procs :
           call[p].name = "releaseBlockAffinity" =>
               /\ steps[p].gets <= ipamEtcdRetries
               /\ steps[p].upd <= ipamEtcdRetries
               /\ steps[p].gets = steps[p].conf + 1 \/ pc[p] = "rel_get"
    /\ lastDone.name = "releaseBlockAffinity" =>
           LET st == lastDone.steps
           IN  /\ st.gets <= ipamEtcdRetries
               /\ st.upd <= ipamEtcdRetries
               /\ st.conf <= st.upd
               /\ st.gets = IF lastDone.err = "MaxRetries" THEN st.conf ELSE st.conf + 1
               /\ (st.upd > st.conf /\ st.mutated) =>
                      /\ lastDone.err = "nil"
                      /\ st.conf < ipamEtcdRetries
                      /\ st.upd = st.conf + 1
               /\ lastDone.err = "MaxRetries" <=> st.conf = ipamEtcdRetries

\* A release has returned success on its second iteration, after one Update
\* that conflicted.
C11_Witness ==
    /\ lastDone.name = "releaseBlockAffinity"
    /\ lastDone.err = "nil"
    /\ lastDone.steps.conf = 1
    /\ lastDone.steps.upd = 2
    /\ lastDone.steps.gets = 2
    /\ lastDone.steps.mutated

\* Every Update of a release conflicted: it has returned the max-retries error.
C11_MaxRetriesReached ==
    /\ lastDone.name = "releaseBlockAffinity"
    /\ lastDone.err = "MaxRetries"
    /\ lastDone.steps.conf = ipamEtcdRetries

\* C12 (catalog errors surfaced): a claimNewAffineBlock during which the
\* catalog read failed returns the catalog's error, with a pool given or
\* not; isConfiguredPool and withinConfiguredPools answer false over a read
\* that failed.
C12_CatalogErrorSurfaced ==
    /\ (lastDone.name = "claimNewAffineBlock" /\ lastDone.steps.catalogFailed) =>
           lastDone.err = "CatalogError"
    /\ \A k \in 1..Len(Pools) :
           /\ ~isConfiguredPool(<<>>, Pools[k].CIDR)
           /\ ~withinConfiguredPools(<<>>, PoolIP(Pools[k].CIDR))

\* C13 (claimed-by-another means a different host): claimBlockAffinity returns
\* the claimed-by-another error only when the block it read has its affinity
\* set to a host other than the caller's, never when the affinity is absent.
C13_ClaimedMeansOtherHost ==
    (lastDone.name = "claimBlockAffinity" /\ lastDone.err = "AffinityClaimed") =>
        lastDone.steps.reread \notin {"none", NoHost, lastDone.host}

\* C14 (loser cleans up): a claimBlockAffinity whose re-read returned a block
\* not affine to its host issues the Delete of its Block Affinity record;
\* when the Delete succeeds it returns the claimed-by-another error with the
\* block read, the record (host, cidr) is gone and, the call having run
\* alone, no Block has changed; when the Delete fails it returns the Delete's
\* error.
C14_LoserCleansUp ==
    (lastDone.name = "claimBlockAffinity"
        /\ lastDone.steps.reread \notin {"none", lastDone.host}) =>
        LET st == lastDone.steps
        IN  /\ st.delErr # "none"
            /\ st.delErr = "nil" =>
                   /\ lastDone.err = "AffinityClaimed"
                   /\ lastDone.block.present
                   /\ lastDone.block.aff = st.reread
            /\ st.delErr # "nil" => lastDone.err = st.delErr
            /\ lastDone.err = "AffinityClaimed" =>
                   /\ <<lastDone.host, lastDone.target>> \notin affs
                   /\ lastDone.alone => blocks = lastDone.start.blocks

\* The loser, running alone against a block of another host, has returned
\* the claimed-by-another error.
C14_Witness ==
    /\ lastDone.name = "claimBlockAffinity"
    /\ lastDone.alone
    /\ lastDone.steps.reread \in Hosts \ {lastDone.host}
    /\ lastDone.steps.delErr = "nil"
    /\ lastDone.err = "AffinityClaimed"
    /\ blocks[lastDone.target].aff = lastDone.steps.reread

\* The cleanup Delete of the loser failed: its error came back and the
\* record is still there.
C14_CleanupFailed ==
    /\ lastDone.name = "claimBlockAffinity"
    /\ lastDone.steps.reread \in Hosts \ {lastDone.host}
    /\ lastDone.steps.delErr = "StoreError"
    /\ lastDone.err = "StoreError"
    /\ <<lastDone.host, lastDone.target>> \in affs

\* The candidates of a scan over pools, in the order of the scan.
RECURSIVE CandSeq(_, _, _)
CandSeq(pools, pi, ip) ==
    LET n == NextCandidate(pools, pi, ip)
    IN  IF n.subnet = NilCIDR THEN <<>>
        ELSE <<n.subnet>> \o CandSeq(pools, n.pi, n.ip)

\* C15 (single claim attempt): a claimNewAffineBlock issues its Gets one per
\* candidate in scan order, calls claimBlockAffinity at most once and so
\* issues at most one Create of a Block; it makes that call exactly when a
\* Get returned not-found, for that candidate, and examines no candidate
\* after it; a Get that fails otherwise ends the call with that error.
C15_SingleClaimAttempt ==
    /\ \A p \in Procs :
           call[p].name = "claimNewAffineBlock" =>
               /\ steps[p].claims <= 1
               /\ steps[p].creates <= 1
               /\ steps[p].scanGets <= Len(CandSeq(scan[p].pools, 1, PoolIP(scan[p].pools[1])))
    /\ (lastDone.name = "claimNewAffineBlock" /\ lastDone.pools # <<>>) =>
           LET st == lastDone.steps
               cands == CandSeq(lastDone.pools, 1, PoolIP(lastDone.pools[1]))
           IN  /\ st.scanGets <= Len(cands)
               /\ st.claims <= 1
               /\ st.creates <= 1
               /\ st.claims = 1 <=> st.getErr = "NotFound"
               /\ st.claims = 1 =>
                      /\ lastDone.target = cands[st.scanGets]
                      /\ lastDone.err = "nil" => lastDone.cidr = lastDone.target
               /\ st.getErr \notin {"none", "nil", "NotFound"} =>
                      /\ lastDone.err = st.getErr
                      /\ st.claims = 0
               /\ st.claims = 0 /\ st.getErr \in {"none", "nil"} =>
                      /\ lastDone.err = "NoFreeBlocks"
                      /\ st.scanGets = Len(cands)

\* The single attempt failed at its Create, on the second candidate of the
\* scan, and the call returned its error.
C15_Witness ==
    /\ lastDone.name = "claimNewAffineBlock"
    /\ lastDone.steps.scanGets = 2
    /\ lastDone.steps.claims = 1
    /\ lastDone.steps.creates = 1
    /\ lastDone.err = "StoreError"

\* C16 (no CIDR on error): claimNewAffineBlock returns a CIDR only together
\* with a nil error.
C16_NoCIDROnError ==
    (lastDone.name = "claimNewAffineBlock" /\ lastDone.cidr # NilCIDR) =>
        lastDone.err = "nil"

\* The pools of the catalog that are enabled, of the requested version and,
\* when a pool is given, equal to it.
EligibleIn(items, version, pool) ==
    { items[k].CIDR : k \in { j \in 1..Len(items) :
                                /\ ~items[j].Disabled
                                /\ items[j].CIDR.ver = version
                                /\ pool = NilCIDR \/ items[j].CIDR = pool } }

\* Every address of block c lies in pool.
Within(c, pool) ==
    /\ Contains(pool, PoolIP(c))
    /\ Contains(pool, incrementIP(PoolIP(c), Size(c) - 1))

\* C17 (only eligible pools): the Block a claimNewAffineBlock created lies
\* in an enabled pool of the catalog of the requested version, the given
\* pool when one is given; when there is no such pool the call returns an
\* error and has issued no Create, Update or Delete.
C17_OnlyEligiblePools ==
    lastDone.name = "claimNewAffineBlock" =>
        LET el == EligibleIn(catalog, lastDone.version, lastDone.pool)
            st == lastDone.steps
        IN  /\ st.created # NilCIDR => \E q \in el : Within(st.created, q)
            /\ el = {} =>
                   /\ lastDone.err \notin {"nil", "none"}
                   /\ st.writes = 0
                   /\ st.created = NilCIDR
                   /\ lastDone.alone =>
                          blocks = lastDone.start.blocks /\ affs = lastDone.start.affs

\* With no enabled pool of the requested version, and a store that is not
\* empty, the call has failed.
C17_Witness ==
    /\ lastDone.name = "claimNewAffineBlock"
    /\ lastDone.pool = NilCIDR
    /\ EligibleIn(catalog, lastDone.version, lastDone.pool) = {}
    /\ lastDone.err = "NoConfiguredPools"
    /\ lastDone.alone
    /\ \E c \in BlockKeys : blocks[c].present

\* A block was created in the pool given.
C17_CreatedInGivenPool ==
    /\ lastDone.name = "claimNewAffineBlock"
    /\ lastDone.pool # NilCIDR
    /\ lastDone.steps.created # NilCIDR
    /\ Within(lastDone.steps.created, lastDone.pool)

\* C18 (affinity cleanup never fails a release): a releaseBlockAffinity whose
\* Delete or Update of the Block succeeded goes on to the Delete of the Block
\* Affinity record and returns success whatever that Delete returns, without
\* another iteration.
C18_AffinityCleanupNeverFailsRelease ==
    (lastDone.name = "releaseBlockAffinity" /\ lastDone.steps.mutated) =>
        LET st == lastDone.steps
        IN  /\ lastDone.err = "nil"
            /\ st.affDel # "none"
            /\ st.gets = st.conf + 1
            /\ st.writes = st.conf + 2

\* The Delete of the Block Affinity record failed with a store error; the
\* release returned success and the record is still there.
C18_Witness ==
    /\ lastDone.name = "releaseBlockAffinity"
    /\ lastDone.steps.mutated
    /\ lastDone.steps.affDel = "StoreError"
    /\ lastDone.err = "nil"
    /\ <<lastDone.host, lastDone.target>> \in affs

\* C19 (release never deletes a foreign block): the Block a release by H
\* removes has, when the Delete removes it, no host-affinity or H's.
C19_ReleaseDeletesOwnBlock ==
    /\ \A p \in Procs : steps[p].deleted \in {"none", NoHost, call[p].host}
    /\ lastDone.name = "releaseBlockAffinity" =>
           lastDone.steps.deleted \in {"none", NoHost, lastDone.host}

\* C20 (successful claim is indexed): after a claimBlockAffinity that ran
\* alone returned success, the Block Affinity record (host, cidr) exists and
\* getAffineBlocks(host, version) includes cidr.
C20_SuccessfulClaimIndexed ==
    (lastDone.name = "claimBlockAffinity" /\ lastDone.err = "nil" /\ lastDone.alone) =>
        /\ <<lastDone.host, lastDone.target>> \in affs
        /\ lastDone.target \in getAffineBlocks(lastDone.host, lastDone.target.ver)

====
